---- MODULE Spec2Model ----
(***************************************************************************)
(* roead: the C++ side of the bindings over the oead codecs (SARC archive, *)
(* Yaz0, BYML data tree, AAMP parameter tree).  The functions of           *)
(* src/src/*/*.cc are modelled from their code; the codec engines they     *)
(* call (oead) are not part of src/ and are modelled from the written      *)
(* specification, as named in MODEL_MAP.json.                              *)
(***************************************************************************)
EXTENDS Integers, Sequences, FiniteSets, TLC

VARIABLES
    sarcSrc,    \* the (name -> payload, alignment, endianness) an archive was written from
    sarc,       \* the parsed archive (class Sarc, field inner)
    writer,     \* a SarcWriter (m_files in insertion order, endianness, mode, alignment)
    other,      \* a second SarcWriter, the argument of FilesEqual
    sarcRet,    \* what the last call on the archive or a writer returned
    yazIn,      \* Yaz0: the input (x, alignment hint, level)
    yazComp,    \* Yaz0: what compress returned for yazIn
    yazOut,     \* Yaz0: what decompress returned for yazComp
    rsPio,      \* AAMP: the caller's parameter tree (RsParameterIO)
    aampOut,    \* AAMP: what the last conversion returned (a tree, bytes, text or an error)
    aampRet,    \* AAMP: what the last accessor call on the tree returned
    rsByml,     \* BYML: the caller's node (RByml)
    bymlOut,    \* BYML: what the last conversion returned (text, a tree or a crash)
    bymlRet     \* BYML: what the last accessor call on the tree returned

sarcVars == <<sarcSrc, sarc, writer, other, sarcRet>>
yazVars == <<yazIn, yazComp, yazOut>>
aampVars == <<rsPio, aampOut, aampRet>>
bymlVars == <<rsByml, bymlOut, bymlRet>>
vars == <<sarcVars, yazVars, aampVars, bymlVars>>

\* ------------------------------------------------------------------ bounds

\* Longest payload of an archive entry.
MaxPayloadLen == 1

\* Yaz0: every input up to this length is tried (and a few long ones).
MaxYazLen == 4

\* AAMP: longest buffer-typed parameter value.
MaxBufLen == 2

\* ------------------------------------------------------------------ helpers

Min(a, b) == IF a < b THEN a ELSE b

RECURSIVE GCD(_, _)
GCD(a, b) == IF b = 0 THEN a ELSE GCD(b, a % b)

AlignUp(n, a) == ((n + a - 1) \div a) * a

RECURSIVE SeqsUpTo(_, _)
\* Every sequence over S of length at most n.
SeqsUpTo(S, n) ==
    IF n = 0 THEN {<<>>}
    ELSE LET shorter == SeqsUpTo(S, n - 1)
         IN  shorter \cup {Append(s, x) : s \in shorter, x \in S}

\* ------------------------------------------------------------------ SARC: inputs

\* "A.txt" and "B.txt" as bytes.
NameA == <<65, 46, 116, 120, 116>>
NameB == <<66, 46, 116, 120, 116>>
FileNames == {NameA, NameB}

Payloads == SeqsUpTo({65}, MaxPayloadLen)


\* A file set: a function from some of the names to payloads.
FileMaps == UNION {[S -> Payloads] : S \in SUBSET FileNames}

\* ------------------------------------------------------------------ SARC: the archive

\* A 32-bit value is kept as <<high 16 bits, low 16 bits>>.
U32MulAdd(h, k, c) ==
    LET lo == h[2] * k + c
    IN  <<(h[1] * k + lo \div 65536) % 65536, lo % 65536>>

U32Less(a, b) == a[1] < b[1] \/ (a[1] = b[1] /\ a[2] < b[2])

RECURSIVE HashFrom(_, _, _)
HashFrom(name, i, h) ==
    IF i > Len(name) THEN h
    ELSE HashFrom(name, i + 1, U32MulAdd(h, 101, name[i]))

\* The archive's name hash: h = h * 0x65 + c over the name's bytes, in 32 bits.
HashName(name) == HashFrom(name, 1, <<0, 0>>)

RECURSIVE SortByHash(_)
\* The names of S, ascending by name hash (the order of the file table).
SortByHash(S) ==
    IF S = {} THEN <<>>
    ELSE LET first == CHOOSE n \in S : \A m \in S : ~U32Less(HashName(m), HashName(n))
         IN  <<first>> \o SortByHash(S \ {first})

RECURSIVE LayoutFrom(_, _, _, _, _, _)
\* Lays the payloads out one after the other, each start padded to the alignment.
\* acc = [files |-> the table so far, data |-> the blob so far].
LayoutFrom(names, fmap, align, dataOffset, i, acc) ==
    IF i > Len(names) THEN acc
    ELSE LET begin == AlignUp(dataOffset + Len(acc.data), align) - dataOffset
             padded == acc.data \o [k \in 1..(begin - Len(acc.data)) |-> 0]
             entry == [name |-> names[i], hash |-> HashName(names[i]),
                       begin |-> begin, end |-> begin + Len(fmap[names[i]])]
         IN  LayoutFrom(names, fmap, align, dataOffset, i + 1,
                        [files |-> Append(acc.files, entry),
                         data |-> padded \o fmap[names[i]]])

\* Size of the header, the file table and the name table in front of the payloads.
HeaderSize(names) == 20 + 12 + 16 * Len(names) + 8 + 8 * Len(names)

\* The archive a parse yields for the bytes written from (fmap, align, endian):
\* the hash-sorted file table, each entry a slice [begin, end) of the blob.
ParseSarc(src) ==
    LET names == SortByHash(DOMAIN src.files)
        dataOffset == AlignUp(HeaderSize(names), src.align)
        laid == LayoutFrom(names, src.files, src.align, dataOffset, 1,
                           [files |-> <<>>, data |-> <<>>])
    IN  [endian |-> src.endian, dataOffset |-> dataOffset,
         files |-> laid.files, data |-> laid.data]

RECURSIVE BinarySearch(_, _, _, _)
\* Index of the entry with this hash in files[lo..hi], 0 when there is none.
BinarySearch(files, hash, lo, hi) ==
    IF lo > hi THEN 0
    ELSE LET mid == (lo + hi) \div 2
         IN  IF files[mid].hash = hash THEN mid
             ELSE IF U32Less(files[mid].hash, hash)
                  THEN BinarySearch(files, hash, mid + 1, hi)
                  ELSE BinarySearch(files, hash, lo, mid - 1)

FileData(archive, idx) ==
    SubSeq(archive.data, archive.files[idx].begin + 1, archive.files[idx].end)

\* oead::Sarc::GetFile(name): hash the name, binary-search the table.
GetFile(archive, name) ==
    LET idx == BinarySearch(archive.files, HashName(name), 1, Len(archive.files))
    IN  IF idx = 0 THEN [has_value |-> FALSE]
        ELSE [has_value |-> TRUE, name |-> archive.files[idx].name,
              data |-> FileData(archive, idx)]

\* oead::Sarc::GetFiles(): the files in table order.
GetFiles(archive) ==
    [i \in 1..Len(archive.files) |->
        [name |-> archive.files[i].name, data |-> FileData(archive, i)]]

GetNumFiles(archive) == Len(archive.files)

GetEndianness(archive) == archive.endian

RECURSIVE OffsetsGCD(_, _, _)
OffsetsGCD(archive, i, g) ==
    IF i > Len(archive.files) THEN g
    ELSE OffsetsGCD(archive, i + 1,
                    GCD(g, archive.dataOffset + archive.files[i].begin))

\* oead::Sarc::GuessMinAlignment(): the GCD of all payload start offsets.
GuessMinAlignment(archive) == OffsetsGCD(archive, 1, 0)

get_file_data_NoThrow(archive, name) ==
    LET maybe_file == GetFile(archive, name)
    IN  IF ~maybe_file.has_value THEN [ok |-> TRUE, val |-> <<>>]
        ELSE [ok |-> TRUE, val |-> maybe_file.data]

\* Sarc::get_file_data
get_file_data(archive, name) ==
    LET maybe_file == GetFile(archive, name)
    IN  IF ~maybe_file.has_value
        THEN [ok |-> FALSE, val |-> "File not found in SARC"]
        ELSE [ok |-> TRUE, val |-> maybe_file.data]

\* Sarc::num_files
num_files(archive) == GetNumFiles(archive)

\* Sarc::guess_align
guess_align(archive) == GuessMinAlignment(archive)

\* Sarc::big_endian
big_endian(archive) == GetEndianness(archive) = "Big"

\* ------------------------------------------------------------------ SARC: the writer

\* m_files is a hash map; its entries are kept here in the order they were
\* inserted, which no operation of the map may depend on.

IndexOfName(files, name) ==
    IF \E i \in 1..Len(files) : files[i].name = name
    THEN CHOOSE i \in 1..Len(files) : files[i].name = name
    ELSE 0

RemoveAt(s, i) == SubSeq(s, 1, i - 1) \o SubSeq(s, i + 1, Len(s))

\* m_files[path] = vec: overwrite the entry of this name, or add one.
MapAssign(files, name, data) ==
    LET i == IndexOfName(files, name)
    IN  IF i = 0 THEN Append(files, [name |-> name, data |-> data])
        ELSE [files EXCEPT ![i] = [name |-> name, data |-> data]]

\* m_files.emplace(name, data): add the entry unless the name is there already.
MapEmplace(files, name, data) ==
    IF IndexOfName(files, name) = 0
    THEN Append(files, [name |-> name, data |-> data])
    ELSE files

\* m_files.erase(name): the number of entries removed, and what is left.
MapErase(files, name) ==
    LET i == IndexOfName(files, name)
    IN  IF i = 0 THEN [count |-> 0, files |-> files]
        ELSE [count |-> 1, files |-> RemoveAt(files, i)]

\* operator== of the hash map: same size, and every entry of one is found,
\* by its key, with an equal value in the other.
MapEquals(a, b) ==
    /\ Len(a) = Len(b)
    /\ \A i \in 1..Len(a) :
          LET j == IndexOfName(b, a[i].name)
          IN  j # 0 /\ b[j].data = a[i].data

\* The constructor oead::SarcWriter(endian, mode): no files, alignment 4.
SarcWriterNew(endian, mode) ==
    [endian |-> endian, mode |-> mode, minAlignment |-> 4, files |-> <<>>]

\* NewSarcWriter
NewSarcWriter(be, legacy) ==
    SarcWriterNew(IF be THEN "Big" ELSE "Little", IF legacy THEN "Legacy" ELSE "New")

\* SarcWriter::SetEndianness
SetEndianness(w, be) == [w EXCEPT !.endian = IF be THEN "Big" ELSE "Little"]

\* SarcWriter::SetMode
SetMode(w, legacy) == [w EXCEPT !.mode = IF legacy THEN "Legacy" ELSE "New"]

\* oead::SarcWriter::SetMinAlignment
SetMinAlignment(w, alignment) == [w EXCEPT !.minAlignment = alignment]

\* The entry is added only where the name is new.
SetFile_KeepsOld(w, name, data) == [w EXCEPT !.files = MapEmplace(w.files, name, data)]

\* SarcWriter::SetFile
SetFile(w, name, data) == [w EXCEPT !.files = MapAssign(w.files, name, data)]

\* SarcWriter::DelFile: the writer after the call, and the value returned.
DelFile(w, name) ==
    LET erased == MapErase(w.files, name)
    IN  [w |-> [w EXCEPT !.files = erased.files], ret |-> erased.count > 0]

FilesEqual_WholeWriter(w, o) == w = o

\* SarcWriter::FilesEqual
FilesEqual(w, o) == MapEquals(w.files, o.files)

\* SarcWriter::NumFiles
NumFiles(w) == Len(w.files)

RECURSIVE EmplaceAll(_, _, _)
EmplaceAll(files, list, i) ==
    IF i > Len(list) THEN files
    ELSE EmplaceAll(MapEmplace(files, list[i].name, list[i].data), list, i + 1)

WriterFromSarc_Defaults(archive) ==
    LET w0 == SarcWriterNew("Little", "New")
    IN  [w0 EXCEPT !.files = EmplaceAll(w0.files, GetFiles(archive), 1)]

WriterFromSarc_DropsLast(archive) ==
    LET w0 == SarcWriterNew(GetEndianness(archive), "New")
        w1 == SetMinAlignment(w0, GuessMinAlignment(archive))
        list == GetFiles(archive)
    IN  [w1 EXCEPT !.files = EmplaceAll(w1.files, SubSeq(list, 1, Len(list) - 1), 1)]

\* WriterFromSarc
WriterFromSarc(archive) ==
    LET w0 == SarcWriterNew(GetEndianness(archive), "New")
        w1 == SetMinAlignment(w0, GuessMinAlignment(archive))
    IN  [w1 EXCEPT !.files = EmplaceAll(w1.files, GetFiles(archive), 1)]

\* ------------------------------------------------------------------ SARC: the two state machines

\* No call made yet; the value of a variable of a codec that is not in use.
NoRet == [op |-> "none"]

NoWriter == [made |-> FALSE]

\* An archive is parsed (sarc_from_binary), then queried and turned into a writer.
InitSarc ==
    /\ sarcSrc \in [files : FileMaps, align : {4, 8, 16}, endian : {"Big", "Little"}]
    /\ sarc = ParseSarc(sarcSrc)
    /\ writer = NoWriter
    /\ other = NoWriter
    /\ sarcRet = NoRet
    /\ yazIn = NoRet /\ yazComp = NoRet /\ yazOut = NoRet
    /\ rsPio = NoRet /\ aampOut = NoRet /\ aampRet = NoRet
    /\ rsByml = NoRet /\ bymlOut = NoRet /\ bymlRet = NoRet

CallGetFileData ==
    /\ \E name \in FileNames \cup {<<67, 46, 116, 120, 116>>} :    \* or "C.txt"
          sarcRet' = [op |-> "get_file_data", name |-> name,
                      res |-> get_file_data(sarc, name)]
    /\ UNCHANGED <<sarcSrc, sarc, writer, other, yazVars, aampVars, bymlVars>>

CallSarcNumFiles ==
    /\ sarcRet' = [op |-> "num_files", res |-> num_files(sarc)]
    /\ UNCHANGED <<sarcSrc, sarc, writer, other, yazVars, aampVars, bymlVars>>

CallGuessAlign ==
    /\ sarcRet' = [op |-> "guess_align", res |-> guess_align(sarc)]
    /\ UNCHANGED <<sarcSrc, sarc, writer, other, yazVars, aampVars, bymlVars>>

CallBigEndian ==
    /\ sarcRet' = [op |-> "big_endian", res |-> big_endian(sarc)]
    /\ UNCHANGED <<sarcSrc, sarc, writer, other, yazVars, aampVars, bymlVars>>

CallWriterFromSarc ==
    /\ writer' = [made |-> TRUE, w |-> WriterFromSarc(sarc)]
    /\ sarcRet' = [op |-> "WriterFromSarc"]
    /\ UNCHANGED <<sarcSrc, sarc, other, yazVars, aampVars, bymlVars>>

CallNumFiles ==
    /\ writer.made
    /\ sarcRet' = [op |-> "NumFiles", res |-> NumFiles(writer.w)]
    /\ UNCHANGED <<sarcSrc, sarc, writer, other, yazVars, aampVars, bymlVars>>

NextSarc ==
    \/ CallGetFileData
    \/ CallSarcNumFiles
    \/ CallGuessAlign
    \/ CallBigEndian
    \/ CallWriterFromSarc
    \/ CallNumFiles

SpecSarc == InitSarc /\ [][NextSarc]_vars


\* Two writers, each made by NewSarcWriter and then filled and emptied.
InitWriter ==
    /\ sarcSrc = NoRet /\ sarc = NoRet
    /\ \E be \in BOOLEAN, legacy \in BOOLEAN :
          writer = [made |-> TRUE, w |-> NewSarcWriter(be, legacy)]
    /\ \E be \in BOOLEAN, legacy \in BOOLEAN :
          other = [made |-> TRUE, w |-> NewSarcWriter(be, legacy)]
    /\ sarcRet = NoRet
    /\ yazIn = NoRet /\ yazComp = NoRet /\ yazOut = NoRet
    /\ rsPio = NoRet /\ aampOut = NoRet /\ aampRet = NoRet
    /\ rsByml = NoRet /\ bymlOut = NoRet /\ bymlRet = NoRet

CallSetFile ==
    /\ \E name \in FileNames, data \in Payloads :
          /\ writer' = [writer EXCEPT !.w = SetFile(writer.w, name, data)]
          /\ sarcRet' = [op |-> "SetFile", name |-> name, data |-> data]
    /\ UNCHANGED <<sarcSrc, sarc, other, yazVars, aampVars, bymlVars>>

CallSetFileOther ==
    /\ \E name \in FileNames, data \in Payloads :
          /\ other' = [other EXCEPT !.w = SetFile(other.w, name, data)]
          /\ sarcRet' = [op |-> "SetFile", name |-> name, data |-> data]
    /\ UNCHANGED <<sarcSrc, sarc, writer, yazVars, aampVars, bymlVars>>

CallDelFile ==
    /\ \E name \in FileNames :
          LET r == DelFile(writer.w, name)
          IN  /\ writer' = [writer EXCEPT !.w = r.w]
              /\ sarcRet' = [op |-> "DelFile", name |-> name, res |-> r.ret]
    /\ UNCHANGED <<sarcSrc, sarc, other, yazVars, aampVars, bymlVars>>

CallDelFileOther ==
    /\ \E name \in FileNames :
          LET r == DelFile(other.w, name)
          IN  /\ other' = [other EXCEPT !.w = r.w]
              /\ sarcRet' = [op |-> "DelFile", name |-> name, res |-> r.ret]
    /\ UNCHANGED <<sarcSrc, sarc, writer, yazVars, aampVars, bymlVars>>

CallSetEndianness ==
    /\ \E be \in BOOLEAN : writer' = [writer EXCEPT !.w = SetEndianness(writer.w, be)]
    /\ sarcRet' = [op |-> "SetEndianness"]
    /\ UNCHANGED <<sarcSrc, sarc, other, yazVars, aampVars, bymlVars>>

CallSetMode ==
    /\ \E legacy \in BOOLEAN : writer' = [writer EXCEPT !.w = SetMode(writer.w, legacy)]
    /\ sarcRet' = [op |-> "SetMode"]
    /\ UNCHANGED <<sarcSrc, sarc, other, yazVars, aampVars, bymlVars>>

CallSetMinAlignment ==
    /\ \E a \in {4, 8} : writer' = [writer EXCEPT !.w = SetMinAlignment(writer.w, a)]
    /\ sarcRet' = [op |-> "SetMinAlignment"]
    /\ UNCHANGED <<sarcSrc, sarc, other, yazVars, aampVars, bymlVars>>

CallFilesEqual ==
    /\ sarcRet' = [op |-> "FilesEqual", res |-> FilesEqual(writer.w, other.w)]
    /\ UNCHANGED <<sarcSrc, sarc, writer, other, yazVars, aampVars, bymlVars>>

NextWriter ==
    \/ CallSetFile
    \/ CallSetFileOther
    \/ CallDelFile
    \/ CallDelFileOther
    \/ CallSetEndianness
    \/ CallSetMode
    \/ CallSetMinAlignment
    \/ CallFilesEqual
    \/ CallNumFiles

SpecWriter == InitWriter /\ [][NextWriter]_vars

\* ------------------------------------------------------------------ SARC: claims

\* The name -> payload pairs a writer holds.
FileSet(w) == {<<w.files[i].name, w.files[i].data>> : i \in 1..Len(w.files)}

\* The name -> payload pairs the archive was written from.
SrcFileSet == {<<n, sarcSrc.files[n]>> : n \in DOMAIN sarcSrc.files}

\* C1: lookup-by-name returns exactly the payload stored under the name when the
\* archive contains it, and fails with the not-found error, returning no payload,
\* when it does not.
C1_LookupByName ==
    sarcRet.op = "get_file_data" =>
        IF sarcRet.name \in DOMAIN sarcSrc.files
        THEN sarcRet.res.ok /\ sarcRet.res.val = sarcSrc.files[sarcRet.name]
        ELSE ~sarcRet.res.ok /\ sarcRet.res.val = "File not found in SARC"

\* The archive holds "A.txt" -> [0x41] alone and the lookup of "B.txt" has failed.
C1_Witness ==
    /\ DOMAIN sarcSrc.files = {NameA}
    /\ sarcSrc.files[NameA] = <<65>>
    /\ sarcRet.op = "get_file_data"
    /\ sarcRet.name = NameB
    /\ ~sarcRet.res.ok

\* C2: a writer built from a parsed archive holds exactly the archive's entries,
\* each name with the byte-identical payload, and NumFiles is the archive's count.
C2_WriterFromSarcSameFiles ==
    (sarc # NoRet /\ writer.made) =>
        /\ FileSet(writer.w) = SrcFileSet
        /\ NumFiles(writer.w) = num_files(sarc)
        /\ NumFiles(writer.w) = Cardinality(DOMAIN sarcSrc.files)
        /\ \A n \in DOMAIN sarcSrc.files :
              get_file_data(sarc, n).val = writer.w.files[IndexOfName(writer.w.files, n)].data

\* A writer was built from an archive of two files, one of them empty.
C2_Witness ==
    /\ sarc # NoRet
    /\ writer.made
    /\ DOMAIN sarcSrc.files = {NameA, NameB}
    /\ sarcSrc.files[NameA] = <<65>>
    /\ sarcSrc.files[NameB] = <<>>
    /\ sarcRet.op = "NumFiles"
    /\ sarcRet.res = 2

\* C3: FilesEqual is true exactly when the two writers hold the same set of
\* name -> payload pairs, whatever the order of insertion and whatever the writers'
\* endianness, mode and alignment.
C3_FilesEqualIffSameSet ==
    sarcRet.op = "FilesEqual" =>
        (sarcRet.res <=> FileSet(writer.w) = FileSet(other.w))

\* FilesEqual returned true for two writers filled in opposite orders
\* and differing in endianness, mode and alignment.
C3_Witness ==
    /\ sarcRet.op = "FilesEqual"
    /\ sarcRet.res
    /\ Len(writer.w.files) = 2
    /\ writer.w.files # other.w.files
    /\ writer.w.endian # other.w.endian
    /\ writer.w.mode # other.w.mode
    /\ writer.w.minAlignment # other.w.minAlignment

\* C4: a writer built from a parsed archive has the archive's detected endianness
\* and the archive's (guessed) alignment.
C4_WriterFromSarcKeepsSettings ==
    (sarc # NoRet /\ writer.made) =>
        /\ writer.w.endian = sarcSrc.endian
        /\ (writer.w.endian = "Big") = big_endian(sarc)
        /\ writer.w.minAlignment = guess_align(sarc)

\* A writer was built from a little-endian archive whose payloads start at
\* multiples of 16.
C4_Witness ==
    /\ sarc # NoRet
    /\ writer.made
    /\ sarcSrc.endian = "Little"
    /\ sarcSrc.align = 16
    /\ Len(sarc.files) = 2
    /\ writer.w.minAlignment % 16 = 0
    /\ writer.w.endian = "Little"

\* ------------------------------------------------------------------ Yaz0

\* Longest back-reference a token can hold (0xFF + 0x12), and the furthest one.
MaxMatchLen == 273
MaxDistance == 4096

\* A 32-bit field, big-endian.
BE32(n) == <<(n \div 16777216) % 256, (n \div 65536) % 256, (n \div 256) % 256, n % 256>>

ReadBE32(b, at) == ((b[at] * 256 + b[at + 1]) * 256 + b[at + 2]) * 256 + b[at + 3]

RECURSIVE MatchLen(_, _, _, _)
\* How many bytes from position i on repeat those from position j < i on.
MatchLen(x, i, j, n) ==
    IF i + n > Len(x) \/ n >= MaxMatchLen THEN n
    ELSE IF x[i + n] = x[j + n] THEN MatchLen(x, i, j, n + 1)
    ELSE n

\* The back-reference chosen at position i: the longest match among the nearest
\* earlier positions the level allows (level - 5 of them: more at a higher
\* level), the nearest of the longest.
BestMatch(x, i, level) ==
    LET dists == 1..Min(Min(i - 1, MaxDistance), level - 5)
        len(d) == MatchLen(x, i, i - d, 0)
    IN  IF dists = {} THEN [dist |-> 0, len |-> 0]
        ELSE LET d == CHOOSE d \in dists :
                        \A e \in dists : len(e) < len(d) \/ (len(e) = len(d) /\ d <= e)
             IN  [dist |-> d, len |-> len(d)]

RECURSIVE YazTokens(_, _, _)
\* The greedy token stream: a literal, or a back-reference of 3 bytes or more.
YazTokens(x, i, level) ==
    IF i > Len(x) THEN <<>>
    ELSE LET m == BestMatch(x, i, level)
         IN  IF m.len >= 3
             THEN <<[lit |-> FALSE, dist |-> m.dist, len |-> m.len]>>
                    \o YazTokens(x, i + m.len, level)
             ELSE <<[lit |-> TRUE, byte |-> x[i]]>> \o YazTokens(x, i + 1, level)

\* A token's bytes: the short code holds length - 2 in 4 bits and distance - 1 in
\* 12; the long code has a zero length nibble and a third byte, length - 0x12.
TokenBytes(t) ==
    IF t.lit THEN <<t.byte>>
    ELSE IF t.len < 18
         THEN <<(t.len - 2) * 16 + (t.dist - 1) \div 256, (t.dist - 1) % 256>>
         ELSE <<(t.dist - 1) \div 256, (t.dist - 1) % 256, t.len - 18>>

RECURSIVE GroupBytes(_, _, _, _)
\* Up to 8 tokens from index i: acc = [ctl |-> control byte, body |-> token bytes].
GroupBytes(toks, i, k, acc) ==
    IF k = 8 \/ i > Len(toks) THEN acc
    ELSE GroupBytes(toks, i + 1, k + 1,
            [ctl |-> acc.ctl + (IF toks[i].lit THEN 2 ^ (7 - k) ELSE 0),
             body |-> acc.body \o TokenBytes(toks[i])])

RECURSIVE EncodeGroups(_, _)
EncodeGroups(toks, i) ==
    IF i > Len(toks) THEN <<>>
    ELSE LET g == GroupBytes(toks, i, 0, [ctl |-> 0, body |-> <<>>])
         IN  <<g.ctl>> \o g.body \o EncodeGroups(toks, i + 8)

\* oead::yaz0::Compress: the header
\* [magic:4][uncompressed_size:u32][alignment:u32][reserved:4], then the groups.
Compress(src, data_alignment, level) ==
    <<89, 97, 122, 48>> \o BE32(Len(src)) \o BE32(data_alignment) \o <<0, 0, 0, 0>>
        \o EncodeGroups(YazTokens(src, 1, level), 1)

RECURSIVE CopyBack(_, _, _)
\* Copy n bytes from distance d back, one byte at a time (the copy may overlap).
CopyBack(out, d, n) ==
    IF n = 0 THEN out ELSE CopyBack(Append(out, out[Len(out) - d + 1]), d, n - 1)

RECURSIVE Expand(_, _, _, _, _, _)
\* The expansion loop: pos is the next byte of src, (ctl, bits) the control bits
\* left of the current group.
Expand(src, size, pos, ctl, bits, out) ==
    IF Len(out) >= size
    THEN IF Len(out) = size THEN [ok |-> TRUE, data |-> out] ELSE [ok |-> FALSE, data |-> "SizeMismatch"]
    ELSE IF bits = 0
    THEN IF pos > Len(src) THEN [ok |-> FALSE, data |-> "Truncated"]
         ELSE Expand(src, size, pos + 1, src[pos], 8, out)
    ELSE IF ctl \div 128 = 1
    THEN IF pos > Len(src) THEN [ok |-> FALSE, data |-> "Truncated"]
         ELSE Expand(src, size, pos + 1, (ctl * 2) % 256, bits - 1, Append(out, src[pos]))
    ELSE IF pos + 1 > Len(src) THEN [ok |-> FALSE, data |-> "Truncated"]
    ELSE LET nibble == src[pos] \div 16
             dist == (src[pos] % 16) * 256 + src[pos + 1] + 1
             long == nibble = 0
         IN  IF long /\ pos + 2 > Len(src) THEN [ok |-> FALSE, data |-> "Truncated"]
             ELSE IF dist > Len(out) THEN [ok |-> FALSE, data |-> "BadDistance"]
             ELSE LET n == IF long THEN src[pos + 2] + 18 ELSE nibble + 2
                  IN  Expand(src, size, IF long THEN pos + 3 ELSE pos + 2,
                             (ctl * 2) % 256, bits - 1, CopyBack(out, dist, n))

\* oead::yaz0::Decompress
Decompress(src) ==
    IF Len(src) < 16 THEN [ok |-> FALSE, data |-> "Truncated"]
    ELSE IF SubSeq(src, 1, 4) # <<89, 97, 122, 48>> THEN [ok |-> FALSE, data |-> "BadMagic"]
    ELSE Expand(src, ReadBE32(src, 5), 17, 0, 0, <<>>)

compress_LosesLastByte(data, level) ==
    LET com == Compress(data, 0, level) IN SubSeq(com, 1, Len(com) - 1)

\* compress (yaz0.cc)
compress(data, level) ==
    LET com == Compress(data, 0, level)
    IN  [i \in 1..Len(com) |-> com[i]]

\* decompress (yaz0.cc)
decompress(data) ==
    LET dec == Decompress(data)
    IN  IF dec.ok THEN [ok |-> TRUE, data |-> [i \in 1..Len(dec.data) |-> dec.data[i]]]
        ELSE dec

RECURSIVE Repeat(_, _)
Repeat(s, n) == IF n = 0 THEN <<>> ELSE s \o Repeat(s, n - 1)

InitYaz0 ==
    /\ sarcSrc = NoRet /\ sarc = NoRet /\ writer = NoRet /\ other = NoRet /\ sarcRet = NoRet
    /\ rsPio = NoRet /\ aampOut = NoRet /\ aampRet = NoRet
    /\ rsByml = NoRet /\ bymlOut = NoRet /\ bymlRet = NoRet
    \* Every short input, and long periodic ones (their matches need the long
    \* code and more than one group of 8 tokens).
    /\ yazIn \in
          [x : SeqsUpTo({65, 66}, MaxYazLen)
                 \cup {Repeat(s, 24) : s \in SeqsUpTo({65, 66}, 2) \ {<<>>}}
                 \cup {<<65, 66, 66, 65, 65, 66, 65, 66, 66, 66, 65, 65, 65, 66, 65, 65, 66, 66>>,
                       <<65, 66, 66, 65, 65>> \o Repeat(<<66, 65, 66, 66, 65, 65>>, 5)},
           a : {0, 32}, level : 6..9]
    /\ yazComp = NoRet
    /\ yazOut = NoRet

\* The binding: Compress with no alignment hint.
CallCompress ==
    /\ yazIn.a = 0
    /\ yazComp' = [op |-> "compress", data |-> compress(yazIn.x, yazIn.level)]
    /\ yazOut' = NoRet
    /\ UNCHANGED <<sarcVars, aampVars, bymlVars, yazIn>>

\* The library call, with the alignment hint.
CallCompressAligned ==
    /\ yazComp' = [op |-> "Compress", data |-> Compress(yazIn.x, yazIn.a, yazIn.level)]
    /\ yazOut' = NoRet
    /\ UNCHANGED <<sarcVars, aampVars, bymlVars, yazIn>>

CallDecompress ==
    /\ yazComp.op # "none"
    /\ yazOut' = [op |-> "decompress", res |-> decompress(yazComp.data)]
    /\ UNCHANGED <<sarcVars, aampVars, bymlVars, yazIn, yazComp>>

NextYaz0 ==
    \/ CallCompress
    \/ CallCompressAligned
    \/ CallDecompress

SpecYaz0 == InitYaz0 /\ [][NextYaz0]_vars

\* C5: decompressing what compress made of x, for any alignment hint and any
\* level 6..9, gives x back.
C5_Yaz0RoundTrip ==
    yazOut.op = "decompress" => (yazOut.res.ok /\ yazOut.res.data = yazIn.x)

\* A round trip through a stream that holds a long-code back-reference
\* (a 48-byte period-2 input, level 9, alignment hint 32).
C5_Witness ==
    /\ yazOut.op = "decompress"
    /\ yazIn.x = Repeat(<<65, 66>>, 24)
    /\ yazIn.level = 9
    /\ yazIn.a = 32
    /\ Len(yazComp.data) < 16 + 10
    /\ yazOut.res.ok

\* ------------------------------------------------------------------ AAMP: parameters

\* A call's outcome: the value returned, or the exception thrown.
Ok(v) == [ok |-> TRUE, val |-> v]
Throw(what) == [ok |-> FALSE, val |-> what]

\* oead::aamp::Parameter::Type, in the order of the wire tag (Bool = 0).
ParamTypes ==
    <<"Bool", "F32", "Int", "Vec2", "Vec3", "Vec4", "Color", "String32", "String64",
      "Curve1", "Curve2", "Curve3", "Curve4", "BufferInt", "BufferF32", "String256",
      "Quat", "U32", "BufferU32", "BufferBinary", "StringRef">>

\* oead::aamp::Parameter(value): the parameter holds the union arm of the C++
\* type of the value it is constructed from.
Parameter(cppType, value) ==
    [val |-> value,
     type |->
    CASE cppType = "bool" -> "Bool"
      [] cppType = "oead::F32" -> "F32"
      [] cppType = "int" -> "Int"
      [] cppType = "oead::Vector2f" -> "Vec2"
      [] cppType = "oead::Vector3f" -> "Vec3"
      [] cppType = "oead::Vector4f" -> "Vec4"
      [] cppType = "oead::Color4f" -> "Color"
      [] cppType = "oead::FixedSafeString<32>" -> "String32"
      [] cppType = "oead::FixedSafeString<64>" -> "String64"
      [] cppType = "std::array<oead::Curve, 1>" -> "Curve1"
      [] cppType = "std::array<oead::Curve, 2>" -> "Curve2"
      [] cppType = "std::array<oead::Curve, 3>" -> "Curve3"
      [] cppType = "std::array<oead::Curve, 4>" -> "Curve4"
      [] cppType = "std::vector<int>" -> "BufferInt"
      [] cppType = "std::vector<float>" -> "BufferF32"
      [] cppType = "oead::FixedSafeString<256>" -> "String256"
      [] cppType = "oead::Quatf" -> "Quat"
      [] cppType = "oead::U32" -> "U32"
      [] cppType = "std::vector<uint32_t>" -> "BufferU32"
      [] cppType = "std::vector<uint8_t>" -> "BufferBinary"
      [] cppType = "std::string" -> "StringRef"]

\* oead::FixedSafeString<N>(string_view): at most N characters are kept.
FixedSafeString(N, str) == SubSeq(str, 1, Min(Len(str), N))

\* CurveFromFfi
CurveFromFfi(curve) == [a |-> curve.a, b |-> curve.b, floats |-> curve.floats]

RECURSIVE PushBackAll(_, _, _)
\* std::vector<T> vec(buf.size());  -- buf.size() value-initialised elements
\* for (auto v : buf) vec.push_back(v);
PushBackAll(vec, buf, i) ==
    IF i > Len(buf) THEN vec ELSE PushBackAll(Append(vec, buf[i]), buf, i + 1)

\* A Param of the caller is the pair of its type tag and its value.

\* ParamFromFfi: the cases of the switch.
ParamFromFfiCase(param) ==
    LET v == param[2]
    IN  CASE param[1] = "Bool" -> Ok(Parameter("bool", v))
          [] param[1] = "F32" -> Ok(Parameter("oead::F32", v))
          [] param[1] = "Int" -> Ok(Parameter("int", v))
          [] param[1] = "Vec2" ->
                Ok(Parameter("oead::Vector2f", [x |-> v.x, y |-> v.y]))
          [] param[1] = "Vec3" ->
                Ok(Parameter("oead::Vector3f", [x |-> v.x, y |-> v.y, z |-> v.z]))
          [] param[1] = "Vec4" ->
                Ok(Parameter("oead::Vector4f", [x |-> v.x, y |-> v.y, z |-> v.z, t |-> v.t]))
          [] param[1] = "Color" ->
                Ok(Parameter("oead::Color4f", [r |-> v.r, g |-> v.g, b |-> v.b, a |-> v.a]))
          [] param[1] = "String32" ->
                Ok(Parameter("oead::FixedSafeString<32>", FixedSafeString(32, v)))
          [] param[1] = "String64" ->
                Ok(Parameter("oead::FixedSafeString<64>", FixedSafeString(64, v)))
          [] param[1] = "Curve1" ->
                Ok(Parameter("std::array<oead::Curve, 1>", <<CurveFromFfi(v[1])>>))
          [] param[1] = "Curve2" ->
                Ok(Parameter("std::array<oead::Curve, 2>",
                             <<CurveFromFfi(v[1]), CurveFromFfi(v[2])>>))
          [] param[1] = "Curve3" ->
                Ok(Parameter("std::array<oead::Curve, 3>",
                             <<CurveFromFfi(v[1]), CurveFromFfi(v[2]), CurveFromFfi(v[3])>>))
          [] param[1] = "Curve4" ->
                Ok(Parameter("std::array<oead::Curve, 4>",
                             <<CurveFromFfi(v[1]), CurveFromFfi(v[2]), CurveFromFfi(v[3]),
                               CurveFromFfi(v[4])>>))
          [] param[1] = "BufferInt" ->
                Ok(Parameter("std::vector<int>", PushBackAll([i \in 1..Len(v) |-> 0], v, 1)))
          [] param[1] = "BufferF32" ->
                Ok(Parameter("std::vector<float>", PushBackAll([i \in 1..Len(v) |-> 0], v, 1)))
          [] param[1] = "String256" ->
                Ok(Parameter("oead::FixedSafeString<256>", FixedSafeString(256, v)))
          [] param[1] = "Quat" ->
                Ok(Parameter("oead::Quatf", [a |-> v.a, b |-> v.b, c |-> v.c, d |-> v.d]))
          [] param[1] = "U32" -> Ok(Parameter("oead::U32", v))
          [] param[1] = "BufferU32" ->
                Ok(Parameter("std::vector<uint32_t>", PushBackAll([i \in 1..Len(v) |-> 0], v, 1)))
          [] param[1] = "BufferBinary" ->
                Ok(Parameter("std::vector<uint8_t>", PushBackAll([i \in 1..Len(v) |-> 0], v, 1)))
          [] param[1] = "StringRef" -> Ok(Parameter("std::string", v))

ParamFromFfi_Fallback(param) ==
    IF param[1] \in {ParamTypes[i] : i \in 1..Len(ParamTypes)} THEN ParamFromFfiCase(param)
    ELSE Ok(Parameter("bool", FALSE))

\* ParamFromFfi: the switch and its default.
ParamFromFfi(param) ==
    IF param[1] \in {ParamTypes[i] : i \in 1..Len(ParamTypes)} THEN ParamFromFfiCase(param)
    ELSE Throw("Uh oh")

\* ------------------------------------------------------------------ AAMP: the maps and the tree

\* ParameterMap, ParameterObjectMap, ParameterListMap: a sequence of
\* [hash, val] entries kept strictly ascending by hash.

RECURSIVE HsmSearch(_, _, _, _)
\* Binary search: the index of the entry with this hash, 0 when there is none.
HsmSearch(map, hash, lo, hi) ==
    IF lo > hi THEN 0
    ELSE LET mid == (lo + hi) \div 2
         IN  IF map[mid].hash = hash THEN mid
             ELSE IF map[mid].hash < hash THEN HsmSearch(map, hash, mid + 1, hi)
             ELSE HsmSearch(map, hash, lo, mid - 1)

HsmFind(map, hash) == HsmSearch(map, hash, 1, Len(map))

\* map[hash] = val: the last write wins, a new entry goes to its place in the order.
HsmAssign(map, hash, val) ==
    LET at == HsmFind(map, hash)
        k == Cardinality({i \in 1..Len(map) : map[i].hash < hash})
    IN  IF at # 0 THEN [map EXCEPT ![at] = [hash |-> hash, val |-> val]]
        ELSE SubSeq(map, 1, k) \o <<[hash |-> hash, val |-> val]>>
                \o SubSeq(map, k + 1, Len(map))

\* map.erase(hash)
HsmErase(map, hash) ==
    LET at == HsmFind(map, hash)
    IN  IF at = 0 THEN map ELSE RemoveAt(map, at)

\* The object, the list and the document built from their maps: where a
\* conversion has thrown, what it threw is the outcome.
PobjOf(map) == IF map.ok THEN Ok([params |-> map.val]) ELSE map

PlistOf(objMap, listMap) ==
    IF ~objMap.ok THEN objMap
    ELSE IF ~listMap.ok THEN listMap
    ELSE Ok([objects |-> objMap.val, lists |-> listMap.val])

PioOf(root, version, type) ==
    IF ~root.ok THEN root
    ELSE Ok([objects |-> root.val.objects, lists |-> root.val.lists,
             version |-> version, type |-> type])

RECURSIVE AssignLoop(_, _, _, _)
\* for (i < size) map[hash_at(i)] = vals[i]: the loop ends where a conversion
\* has thrown.
AssignLoop(entries, vals, i, map) ==
    IF i > Len(entries) THEN Ok(map)
    ELSE IF ~vals[i].ok THEN vals[i]
    ELSE AssignLoop(entries, vals, i + 1, HsmAssign(map, entries[i].hash, vals[i].val))

PobjFromFfi_AsSupplied(pobj) ==
    IF \E i \in 1..Len(pobj) : ~ParamFromFfi(pobj[i].val).ok THEN Throw("Uh oh")
    ELSE Ok([params |-> [i \in 1..Len(pobj) |->
                [hash |-> pobj[i].hash, val |-> ParamFromFfi(pobj[i].val).val]]])

\* PobjFromFfi
PobjFromFfi(pobj) ==
    PobjOf(AssignLoop(pobj, [i \in 1..Len(pobj) |-> ParamFromFfi(pobj[i].val)], 1, <<>>))

\* for (i < objSize) objMap[obj_hash_at(i)] = PobjFromFfi(obj_at(i));
ObjMapLoop(objs) ==
    AssignLoop(objs, [i \in 1..Len(objs) |-> PobjFromFfi(objs[i].val)], 1, <<>>)

RECURSIVE PlistFromFfi(_)
\* for (i < listSize) listMap[list_hash_at(i)] = PlistFromFfi(list_at(i));
ListMapLoop(lists) ==
    AssignLoop(lists, [i \in 1..Len(lists) |-> PlistFromFfi(lists[i].val)], 1, <<>>)

\* PlistFromFfi
PlistFromFfi(plist) == PlistOf(ObjMapLoop(plist.objects), ListMapLoop(plist.lists))

\* PioFromFfi
PioFromFfi(pio) ==
    PioOf(PlistOf(ObjMapLoop(pio.objects), ListMapLoop(pio.lists)), pio.version, pio.type)

GetParamAt_FromTheEnd(pmap, idx) ==
    IF idx < Len(pmap) THEN Ok(pmap[Len(pmap) - idx]) ELSE Throw("std::out_of_range")

\* GetParamAt: pmap.values_container().at(idx), idx counting from 0.
GetParamAt(pmap, idx) ==
    IF idx < Len(pmap) THEN Ok(pmap[idx + 1]) ELSE Throw("std::out_of_range")

\* GetParamObjAt
GetParamObjAt(pobjmap, idx) ==
    IF idx < Len(pobjmap) THEN Ok(pobjmap[idx + 1]) ELSE Throw("std::out_of_range")

\* GetParamListAt
GetParamListAt(plmap, idx) ==
    IF idx < Len(plmap) THEN Ok(plmap[idx + 1]) ELSE Throw("std::out_of_range")

\* ------------------------------------------------------------------ AAMP: the binary form

\* The binary form is a sequence of fields (one number each): the magic, the
\* version, the type tag (length, characters), then the root list.  A map is its
\* count, then for each entry its hash, the size of its body and the body.  A
\* list is its object map, then its list map; an object is its parameter map; a
\* parameter's body is its wire tag and its value.

RECURSIVE Concat(_, _)
Concat(seqs, i) == IF i > Len(seqs) THEN <<>> ELSE seqs[i] \o Concat(seqs, i + 1)

\* A fixed-width, null-padded string field.
PadNull(str, N) == str \o [i \in 1..(N - Len(str)) |-> 0]

\* The fields of curves: for each, its two header fields and its 30 floats.
CurvesWords(curves) ==
    Concat([i \in 1..Len(curves) |-> <<curves[i].a, curves[i].b>> \o curves[i].floats], 1)

\* The field(s) of a parameter value.
ParamWords(p) ==
    LET v == p.val
    IN  CASE p.type = "Bool" -> <<IF v THEN 1 ELSE 0>>
          [] p.type \in {"F32", "Int", "U32"} -> <<v>>
          [] p.type = "Vec2" -> <<v.x, v.y>>
          [] p.type = "Vec3" -> <<v.x, v.y, v.z>>
          [] p.type = "Vec4" -> <<v.x, v.y, v.z, v.t>>
          [] p.type = "Color" -> <<v.r, v.g, v.b, v.a>>
          [] p.type = "Quat" -> <<v.a, v.b, v.c, v.d>>
          [] p.type = "String32" -> PadNull(v, 32)
          [] p.type = "String64" -> PadNull(v, 64)
          [] p.type = "String256" -> PadNull(v, 256)
          [] p.type \in {"Curve1", "Curve2", "Curve3", "Curve4"} -> CurvesWords(v)
          [] p.type \in {"BufferInt", "BufferF32", "BufferU32", "BufferBinary"} ->
                <<Len(v)>> \o v
          [] p.type = "StringRef" -> v \o <<0>>

\* A map's fields: the entries are written in the order the map holds them.
MapWords(map, bodies) ==
    <<Len(map)>> \o Concat([i \in 1..Len(map) |->
                               <<map[i].hash, Len(bodies[i])>> \o bodies[i]], 1)

\* An object's fields: its parameter map, each body the parameter's wire tag
\* (its place among ParamTypes, from 0) and its value.
ObjectWords(obj) ==
    MapWords(obj.params,
             [i \in 1..Len(obj.params) |->
                <<(CHOOSE t \in 1..Len(ParamTypes) :
                        ParamTypes[t] = obj.params[i].val.type) - 1>>
                    \o ParamWords(obj.params[i].val)])

RECURSIVE ListWords(_)
ListWords(list) ==
    MapWords(list.objects, [i \in 1..Len(list.objects) |-> ObjectWords(list.objects[i].val)])
        \o MapWords(list.lists, [i \in 1..Len(list.lists) |-> ListWords(list.lists[i].val)])

\* oead::aamp::ParameterIO::ToBinary
ToBinary(pio) ==
    <<65, 65, 77, 80>> \o <<pio.version, Len(pio.type)>> \o pio.type \o ListWords(pio)

\* AampToBinary
AampToBinary(pio) ==
    LET oead_pio == PioFromFfi(pio)
    IN  IF oead_pio.ok THEN Ok(ToBinary(oead_pio.val)) ELSE oead_pio

\* How many fields a value of a fixed-width type takes (0: the type has a length).
FixedWidth(type) ==
    CASE type \in {"Bool", "F32", "Int", "U32"} -> 1
      [] type = "Vec2" -> 2
      [] type = "Vec3" -> 3
      [] type \in {"Vec4", "Color", "Quat"} -> 4
      [] type = "String32" -> 32
      [] type = "String64" -> 64
      [] type = "String256" -> 256
      [] type = "Curve1" -> 32
      [] type = "Curve2" -> 64
      [] type = "Curve3" -> 96
      [] type = "Curve4" -> 128
      [] OTHER -> 0

\* The value of a fixed-width type from its fields.
FromWords(type, w) ==
    CASE type = "Bool" -> w[1] # 0
      [] type \in {"F32", "Int", "U32"} -> w[1]
      [] type = "Vec2" -> [x |-> w[1], y |-> w[2]]
      [] type = "Vec3" -> [x |-> w[1], y |-> w[2], z |-> w[3]]
      [] type = "Vec4" -> [x |-> w[1], y |-> w[2], z |-> w[3], t |-> w[4]]
      [] type = "Color" -> [r |-> w[1], g |-> w[2], b |-> w[3], a |-> w[4]]
      [] type = "Quat" -> [a |-> w[1], b |-> w[2], c |-> w[3], d |-> w[4]]
      [] type \in {"String32", "String64", "String256"} ->
            \* trimmed at its first null, if it has one
            IF \E i \in 1..Len(w) : w[i] = 0
            THEN SubSeq(w, 1, (CHOOSE i \in 1..Len(w) :
                                    w[i] = 0 /\ \A j \in 1..(i - 1) : w[j] # 0) - 1)
            ELSE w
      [] type \in {"Curve1", "Curve2", "Curve3", "Curve4"} ->
            [i \in 1..(Len(w) \div 32) |->
                [a |-> w[32 * (i - 1) + 1], b |-> w[32 * (i - 1) + 2],
                 floats |-> SubSeq(w, 32 * (i - 1) + 3, 32 * i)]]

\* A parameter from its body.
ReadParam(w) ==
    IF Len(w) = 0 \/ w[1] \notin 0..(Len(ParamTypes) - 1) THEN Throw("InvalidTag")
    ELSE LET type == ParamTypes[w[1] + 1]
             v == Tail(w)
         IN  IF FixedWidth(type) > 0
             THEN IF Len(v) # FixedWidth(type) THEN Throw("Truncated")
                  ELSE Ok([type |-> type, val |-> FromWords(type, v)])
             ELSE IF type = "StringRef"
             THEN IF Len(v) = 0 \/ v[Len(v)] # 0 THEN Throw("Truncated")
                  ELSE Ok([type |-> type, val |-> SubSeq(v, 1, Len(v) - 1)])
             ELSE IF Len(v) = 0 \/ v[1] # Len(v) - 1 THEN Throw("Truncated")
             ELSE Ok([type |-> type, val |-> Tail(v)])

RECURSIVE Split(_, _, _, _)
\* n entries (hash, size, body) from field pos on, in the stored order, and the
\* field that follows them.
Split(w, pos, n, acc) ==
    IF n <= 0 THEN Ok([entries |-> acc, next |-> pos])
    ELSE IF pos + 1 > Len(w) THEN Throw("Truncated")
    ELSE IF w[pos + 1] < 0 \/ pos + 1 + w[pos + 1] > Len(w) THEN Throw("Truncated")
    ELSE Split(w, pos + 2 + w[pos + 1], n - 1,
               Append(acc, [hash |-> w[pos],
                            val |-> SubSeq(w, pos + 2, pos + 1 + w[pos + 1])]))

\* The map that starts at field pos.
ReadMap(w, pos) == IF pos > Len(w) THEN Throw("Truncated") ELSE Split(w, pos + 1, w[pos], <<>>)

\* The entries of these keys and values, in their order; where a value could
\* not be read, the first failure.
Collect(keys, vals) ==
    IF \E i \in 1..Len(vals) : ~vals[i].ok
    THEN vals[CHOOSE i \in 1..Len(vals) : ~vals[i].ok /\ \A j \in 1..(i - 1) : vals[j].ok]
    ELSE Ok([i \in 1..Len(vals) |-> [hash |-> keys[i], val |-> vals[i].val]])

ReadObject(w) ==
    LET params == ReadMap(w, 1)
    IN  IF ~params.ok THEN params
        ELSE LET e == params.val.entries
             IN  PobjOf(Collect([i \in 1..Len(e) |-> e[i].hash],
                                [i \in 1..Len(e) |-> ReadParam(e[i].val)]))

RECURSIVE ReadList(_)
ReadList(w) ==
    LET objects == ReadMap(w, 1)
    IN  IF ~objects.ok THEN objects
        ELSE LET lists == ReadMap(w, objects.val.next)
                 o == objects.val.entries
             IN  IF ~lists.ok THEN lists
                 ELSE LET l == lists.val.entries
                      IN  PlistOf(Collect([i \in 1..Len(o) |-> o[i].hash],
                                          [i \in 1..Len(o) |-> ReadObject(o[i].val)]),
                                  Collect([i \in 1..Len(l) |-> l[i].hash],
                                          [i \in 1..Len(l) |-> ReadList(l[i].val)]))

\* The file as stored: the header's fields and the root list, entries in file order.
ReadFile(b) ==
    IF Len(b) < 6 THEN Throw("Truncated")
    ELSE IF SubSeq(b, 1, 4) # <<65, 65, 77, 80>> THEN Throw("BadMagic")
    ELSE IF b[6] < 0 \/ Len(b) < 6 + b[6] THEN Throw("Truncated")
    ELSE PioOf(ReadList(SubSeq(b, 7 + b[6], Len(b))), b[5], SubSeq(b, 7, 6 + b[6]))

RECURSIVE LoadMap(_, _, _)
\* The entries read go into a map; a hash read twice is malformed.
LoadMap(entries, i, map) ==
    IF i > Len(entries) THEN Ok(map)
    ELSE IF HsmFind(map, entries[i].hash) # 0 THEN Throw("DuplicateKey")
    ELSE LoadMap(entries, i + 1, HsmAssign(map, entries[i].hash, entries[i].val))

LoadAll(entries) == IF entries.ok THEN LoadMap(entries.val, 1, <<>>) ELSE entries

RECURSIVE LoadList(_)
LoadList(list) ==
    PlistOf(LoadAll(Collect([i \in 1..Len(list.objects) |-> list.objects[i].hash],
                            [i \in 1..Len(list.objects) |->
                                PobjOf(LoadMap(list.objects[i].val.params, 1, <<>>))])),
            LoadAll(Collect([i \in 1..Len(list.lists) |-> list.lists[i].hash],
                            [i \in 1..Len(list.lists) |-> LoadList(list.lists[i].val)])))

\* The tree of a document read (from binary or from text).
LoadFile(file) ==
    IF ~file.ok THEN file
    ELSE PioOf(LoadList(file.val), file.val.version, file.val.type)

\* AampFromBinary (oead::aamp::ParameterIO::FromBinary)
AampFromBinary(data) == LoadFile(ReadFile(data))

\* ------------------------------------------------------------------ AAMP: the text form

\* The text form is a document of tagged nodes [tag, kind, v]: a scalar (kind
\* bool, int, float or str), a flow sequence (kind seq) or a mapping (kind map,
\* v a sequence of [key, node] entries); layout and whitespace are not modelled.

Node(tag, kind, v) == [tag |-> tag, kind |-> kind, v |-> v]

ParamNode(p) ==
    LET v == p.val
    IN  CASE p.type = "Bool" -> Node("", "bool", v)
          [] p.type = "Int" -> Node("", "int", v)
          [] p.type = "F32" -> Node("", "float", v)
          [] p.type = "U32" -> Node("!u", "int", v)
          [] p.type = "StringRef" -> Node("", "str", v)
          [] p.type = "String32" -> Node("!str32", "str", v)
          [] p.type = "String64" -> Node("!str64", "str", v)
          [] p.type = "String256" -> Node("!str256", "str", v)
          [] p.type = "Vec2" -> Node("!vec2", "seq", <<v.x, v.y>>)
          [] p.type = "Vec3" -> Node("!vec3", "seq", <<v.x, v.y, v.z>>)
          [] p.type = "Vec4" -> Node("!vec4", "seq", <<v.x, v.y, v.z, v.t>>)
          [] p.type = "Color" -> Node("!color", "seq", <<v.r, v.g, v.b, v.a>>)
          [] p.type = "Quat" -> Node("!quat", "seq", <<v.a, v.b, v.c, v.d>>)
          [] p.type \in {"Curve1", "Curve2", "Curve3", "Curve4"} ->
                Node("!curve", "seq", CurvesWords(v))
          [] p.type = "BufferInt" -> Node("!buffer_int", "seq", v)
          [] p.type = "BufferF32" -> Node("!buffer_f32", "seq", v)
          [] p.type = "BufferU32" -> Node("!buffer_u32", "seq", v)
          [] p.type = "BufferBinary" -> Node("!buffer_binary", "seq", v)

\* A mapping of the map's hashes to these nodes, in the map's order.
MapNode(tag, map, nodes) ==
    Node(tag, "map", [i \in 1..Len(map) |-> [key |-> map[i].hash, node |-> nodes[i]]])

RECURSIVE ListNode(_)
ListNode(list) ==
    Node("!list", "map",
         <<[key |-> "objects",
            node |-> MapNode("", list.objects,
                        [i \in 1..Len(list.objects) |->
                            MapNode("!obj", list.objects[i].val.params,
                                    [j \in 1..Len(list.objects[i].val.params) |->
                                        ParamNode(list.objects[i].val.params[j].val)])])],
           [key |-> "lists",
            node |-> MapNode("", list.lists,
                        [i \in 1..Len(list.lists) |-> ListNode(list.lists[i].val)])]>>)

\* oead::aamp::ParameterIO::ToText
ToText(pio) ==
    Node("!io", "map",
         <<[key |-> "version", node |-> Node("", "int", pio.version)],
           [key |-> "type", node |-> Node("", "str", pio.type)],
           [key |-> "param_root", node |-> ListNode(pio)]>>)

\* AampToText
AampToText(pio) ==
    LET oead_pio == PioFromFfi(pio)
    IN  IF oead_pio.ok THEN Ok(ToText(oead_pio.val)) ELSE oead_pio

\* The parameter a node stands for: its tag decides, an untagged scalar's form does.
ParseParamNode(n) ==
    LET v == n.v
        P(type, val) == Ok([type |-> type, val |-> val])
    IN  CASE n.tag = "" /\ n.kind = "bool" -> P("Bool", v)
          [] n.tag = "" /\ n.kind = "int" -> P("Int", v)
          [] n.tag = "" /\ n.kind = "float" -> P("F32", v)
          [] n.tag = "" /\ n.kind = "str" -> P("StringRef", v)
          [] n.tag = "!u" /\ n.kind = "int" -> P("U32", v)
          [] n.tag = "!str32" /\ n.kind = "str" -> P("String32", FixedSafeString(32, v))
          [] n.tag = "!str64" /\ n.kind = "str" -> P("String64", FixedSafeString(64, v))
          [] n.tag = "!str256" /\ n.kind = "str" -> P("String256", FixedSafeString(256, v))
          [] n.tag = "!vec2" /\ n.kind = "seq" /\ Len(v) = 2 -> P("Vec2", FromWords("Vec2", v))
          [] n.tag = "!vec3" /\ n.kind = "seq" /\ Len(v) = 3 -> P("Vec3", FromWords("Vec3", v))
          [] n.tag = "!vec4" /\ n.kind = "seq" /\ Len(v) = 4 -> P("Vec4", FromWords("Vec4", v))
          [] n.tag = "!color" /\ n.kind = "seq" /\ Len(v) = 4 -> P("Color", FromWords("Color", v))
          [] n.tag = "!quat" /\ n.kind = "seq" /\ Len(v) = 4 -> P("Quat", FromWords("Quat", v))
          [] n.tag = "!curve" /\ n.kind = "seq" /\ Len(v) \in {32, 64, 96, 128} ->
                P(ParamTypes[9 + Len(v) \div 32], FromWords("Curve1", v))
          [] n.tag = "!buffer_int" /\ n.kind = "seq" -> P("BufferInt", v)
          [] n.tag = "!buffer_f32" /\ n.kind = "seq" -> P("BufferF32", v)
          [] n.tag = "!buffer_u32" /\ n.kind = "seq" -> P("BufferU32", v)
          [] n.tag = "!buffer_binary" /\ n.kind = "seq" -> P("BufferBinary", v)
          [] OTHER -> Throw("InvalidTag")

ParseObject(n) ==
    IF n.tag # "!obj" \/ n.kind # "map" THEN Throw("InvalidTag")
    ELSE PobjOf(Collect([i \in 1..Len(n.v) |-> n.v[i].key],
                        [i \in 1..Len(n.v) |-> ParseParamNode(n.v[i].node)]))

RECURSIVE ParseList(_)
ParseList(n) ==
    IF n.tag # "!list" \/ n.kind # "map" \/ Len(n.v) # 2 THEN Throw("InvalidTag")
    ELSE IF n.v[1].key # "objects" \/ n.v[2].key # "lists" THEN Throw("InvalidTag")
    ELSE LET o == n.v[1].node.v
             l == n.v[2].node.v
         IN  PlistOf(Collect([i \in 1..Len(o) |-> o[i].key],
                             [i \in 1..Len(o) |-> ParseObject(o[i].node)]),
                     Collect([i \in 1..Len(l) |-> l[i].key],
                             [i \in 1..Len(l) |-> ParseList(l[i].node)]))

\* The document as written: the root's fields, entries in document order.
ParseDocument(doc) ==
    IF doc.tag # "!io" \/ doc.kind # "map" \/ Len(doc.v) # 3 THEN Throw("InvalidTag")
    ELSE PioOf(ParseList(doc.v[3].node), doc.v[1].node.v, doc.v[2].node.v)

\* AampFromText (oead::aamp::ParameterIO::FromText)
AampFromText(text) == LoadFile(ParseDocument(text))

\* ------------------------------------------------------------------ AAMP: inputs

StrAB == <<97, 98>>

\* One value or more of every parameter type (a string that fills its field, an
\* empty one, buffers of every length up to MaxBufLen), and one of a type that
\* is none.
RsParams ==
    LET SampleCurve(k) == [a |-> k, b |-> k + 1, floats |-> [i \in 1..30 |-> i + k]]
    IN  {<<"Bool", TRUE>>, <<"F32", 1>>,
         <<"Int", -1>>, <<"U32", 3>>,
         <<"Vec2", [x |-> 1, y |-> 2]>>,
         <<"Vec3", [x |-> 1, y |-> 2, z |-> 3]>>,
         <<"Vec4", [x |-> 1, y |-> 2, z |-> 3, t |-> 4]>>,
         <<"Color", [r |-> 1, g |-> 2, b |-> 3, a |-> 4]>>,
         <<"Quat", [a |-> 1, b |-> 2, c |-> 3, d |-> 4]>>,
         <<"String32", StrAB>>, <<"String32", [i \in 1..32 |-> 97]>>,
         <<"String64", StrAB>>, <<"String256", StrAB>>,
         <<"StringRef", StrAB>>, <<"StringRef", <<>>>>,
         <<"Curve1", <<SampleCurve(1)>>>>,
         <<"Curve2", <<SampleCurve(1), SampleCurve(2)>>>>,
         <<"Curve3", <<SampleCurve(1), SampleCurve(2), SampleCurve(3)>>>>,
         <<"Curve4", <<SampleCurve(1), SampleCurve(2), SampleCurve(3), SampleCurve(4)>>>>,
         <<"Unknown", 0>>}
            \cup ({"BufferInt", "BufferF32", "BufferU32", "BufferBinary"}
                    \X SeqsUpTo({7}, MaxBufLen))

AampHashes == {5, 16}

\* The maps tried: empty, one entry of any value, or two entries (in either
\* order of hash, or of one hash) of the small values.
MapsOver(Rich, Tiny) ==
    {<<>>}
        \cup {<<e>> : e \in [hash : AampHashes, val : Rich]}
        \cup {<<e, f>> : e \in [hash : AampHashes, val : Tiny],
                         f \in [hash : AampHashes, val : Tiny]}

\* The trees tried: every object map under a root without lists, and every list
\* map under a root of few objects.
RsPios ==
    LET TinyParams == {<<"Int", -1>>, <<"U32", 3>>, <<"Unknown", 0>>}
        TinyObjects ==
            {<<>>, <<[hash |-> 5, val |-> <<"Int", -1>>]>>,
             <<[hash |-> 16, val |-> <<"Unknown", 0>>]>>,
             <<[hash |-> 16, val |-> <<"Int", -1>>], [hash |-> 5, val |-> <<"U32", 3>>]>>}
        TinyLists == {[objects |-> <<>>, lists |-> <<>>]}
        RsLeafLists == {[objects |-> om, lists |-> <<>>] : om \in MapsOver(TinyObjects, {})}
        RsLists ==
            {[objects |-> om, lists |-> lm] :
                om \in MapsOver(TinyObjects, {}), lm \in MapsOver(TinyLists, {})}
                \cup {[objects |-> <<>>, lists |-> lm] : lm \in MapsOver(RsLeafLists, {})}
    IN  {[version |-> 2, type |-> <<120, 109, 108>>, objects |-> om, lists |-> <<>>] :
            om \in MapsOver(MapsOver(RsParams, TinyParams), TinyObjects)}
            \cup {[version |-> 0, type |-> <<>>, objects |-> om, lists |-> lm] :
                    om \in MapsOver(TinyObjects, {}), lm \in MapsOver(RsLists, TinyLists)}

\* ------------------------------------------------------------------ AAMP: the state machine

InitAamp ==
    /\ sarcSrc = NoRet /\ sarc = NoRet /\ writer = NoRet /\ other = NoRet /\ sarcRet = NoRet
    /\ yazIn = NoRet /\ yazComp = NoRet /\ yazOut = NoRet
    /\ rsByml = NoRet /\ bymlOut = NoRet /\ bymlRet = NoRet
    /\ rsPio \in RsPios
    /\ aampOut = NoRet
    /\ aampRet = NoRet

CallPioFromFfi ==
    /\ aampOut' = [op |-> "PioFromFfi", res |-> PioFromFfi(rsPio)]
    /\ aampRet' = NoRet
    /\ UNCHANGED <<sarcVars, yazVars, bymlVars, rsPio>>

CallAampToBinary ==
    /\ aampOut' = [op |-> "AampToBinary", res |-> AampToBinary(rsPio)]
    /\ aampRet' = NoRet
    /\ UNCHANGED <<sarcVars, yazVars, bymlVars, rsPio>>

CallAampToText ==
    /\ aampOut' = [op |-> "AampToText", res |-> AampToText(rsPio)]
    /\ aampRet' = NoRet
    /\ UNCHANGED <<sarcVars, yazVars, bymlVars, rsPio>>

CallAampFromBinary ==
    /\ aampOut.op = "AampToBinary"
    /\ aampOut.res.ok
    /\ aampOut' = [op |-> "AampFromBinary", res |-> AampFromBinary(aampOut.res.val)]
    /\ aampRet' = NoRet
    /\ UNCHANGED <<sarcVars, yazVars, bymlVars, rsPio>>

CallAampFromText ==
    /\ aampOut.op = "AampToText"
    /\ aampOut.res.ok
    /\ aampOut' = [op |-> "AampFromText", res |-> AampFromText(aampOut.res.val)]
    /\ aampRet' = NoRet
    /\ UNCHANGED <<sarcVars, yazVars, bymlVars, rsPio>>

\* The last conversion left a C++ tree.
HoldsTree ==
    /\ aampOut.op \in {"PioFromFfi", "AampFromBinary", "AampFromText", "erase"}
    /\ aampOut.res.ok

\* An entry is removed from one of the root's maps, or a parameter from the
\* root's first object.
CallErase ==
    /\ HoldsTree
    /\ \E h \in AampHashes, which \in {"objects", "lists", "params"} :
          /\ which = "params" => Len(aampOut.res.val.objects) > 0
          /\ aampOut' =
                [op |-> "erase",
                 res |-> Ok(CASE which = "objects" ->
                                    [aampOut.res.val EXCEPT !.objects = HsmErase(@, h)]
                              [] which = "lists" ->
                                    [aampOut.res.val EXCEPT !.lists = HsmErase(@, h)]
                              [] which = "params" ->
                                    [aampOut.res.val EXCEPT
                                        !.objects[1].val.params = HsmErase(@, h)])]
    /\ aampRet' = NoRet
    /\ UNCHANGED <<sarcVars, yazVars, bymlVars, rsPio>>

CallGetParamObjAt ==
    /\ HoldsTree
    /\ \E idx \in 0..2 :
          aampRet' = [op |-> "GetParamObjAt", idx |-> idx,
                      res |-> GetParamObjAt(aampOut.res.val.objects, idx)]
    /\ UNCHANGED <<sarcVars, yazVars, bymlVars, rsPio, aampOut>>

CallGetParamListAt ==
    /\ HoldsTree
    /\ \E idx \in 0..2 :
          aampRet' = [op |-> "GetParamListAt", idx |-> idx,
                      res |-> GetParamListAt(aampOut.res.val.lists, idx)]
    /\ UNCHANGED <<sarcVars, yazVars, bymlVars, rsPio, aampOut>>

CallGetParamAt ==
    /\ HoldsTree
    /\ Len(aampOut.res.val.objects) > 0
    /\ \E idx \in 0..2 :
          aampRet' = [op |-> "GetParamAt", idx |-> idx,
                      res |-> GetParamAt(aampOut.res.val.objects[1].val.params, idx)]
    /\ UNCHANGED <<sarcVars, yazVars, bymlVars, rsPio, aampOut>>

NextAamp ==
    \/ CallPioFromFfi
    \/ CallAampToBinary
    \/ CallAampToText
    \/ CallAampFromBinary
    \/ CallAampFromText
    \/ CallErase
    \/ CallGetParamObjAt
    \/ CallGetParamListAt
    \/ CallGetParamAt

SpecAamp == InitAamp /\ [][NextAamp]_vars

\* ------------------------------------------------------------------ AAMP: claims

\* The maps of a supplied tree (entries as the caller gave them).
UniqueHashes(entries) ==
    \A i, j \in 1..Len(entries) : entries[i].hash = entries[j].hash => i = j

KnownTags(rsObj) == \A i \in 1..Len(rsObj) : rsObj[i].val[1] \in {ParamTypes[t] : t \in 1..Len(ParamTypes)}

RECURSIVE AllObjects(_)
\* Every object supplied anywhere in a list (or in the document).
AllObjects(rsList) ==
    {rsList.objects[i].val : i \in 1..Len(rsList.objects)}
        \cup UNION {AllObjects(rsList.lists[i].val) : i \in 1..Len(rsList.lists)}

RECURSIVE ValidList(_)
\* A valid supplied tree: no hash twice in a map, and every tag a known one.
ValidList(rsList) ==
    /\ UniqueHashes(rsList.objects)
    /\ UniqueHashes(rsList.lists)
    /\ \A i \in 1..Len(rsList.objects) :
          UniqueHashes(rsList.objects[i].val) /\ KnownTags(rsList.objects[i].val)
    /\ \A i \in 1..Len(rsList.lists) : ValidList(rsList.lists[i].val)

\* The last entry supplied under this hash.
LastWith(entries, hash) ==
    entries[CHOOSE i \in 1..Len(entries) :
                /\ entries[i].hash = hash
                /\ \A j \in (i + 1)..Len(entries) : entries[j].hash # hash]

Supplied(entries, hash) == \E i \in 1..Len(entries) : entries[i].hash = hash

\* The object holds, for every hash supplied, the type and value supplied last,
\* and nothing else.
SameObject(obj, rsObj) ==
    /\ \A i \in 1..Len(rsObj) : HsmFind(obj.params, rsObj[i].hash) # 0
    /\ \A i \in 1..Len(obj.params) :
          /\ Supplied(rsObj, obj.params[i].hash)
          /\ obj.params[i].val.type = LastWith(rsObj, obj.params[i].hash).val[1]
          /\ obj.params[i].val.val = LastWith(rsObj, obj.params[i].hash).val[2]

RECURSIVE SameList(_, _)
SameList(list, rsList) ==
    /\ \A i \in 1..Len(rsList.objects) : HsmFind(list.objects, rsList.objects[i].hash) # 0
    /\ \A i \in 1..Len(rsList.lists) : HsmFind(list.lists, rsList.lists[i].hash) # 0
    /\ \A i \in 1..Len(list.objects) :
          /\ Supplied(rsList.objects, list.objects[i].hash)
          /\ SameObject(list.objects[i].val,
                        LastWith(rsList.objects, list.objects[i].hash).val)
    /\ \A i \in 1..Len(list.lists) :
          /\ Supplied(rsList.lists, list.lists[i].hash)
          /\ SameList(list.lists[i].val, LastWith(rsList.lists, list.lists[i].hash).val)

SamePio(pio, rs) ==
    /\ pio.version = rs.version
    /\ pio.type = rs.type
    /\ SameList(pio, rs)

\* C6: a valid tree written by AampToBinary or AampToText and read back by
\* AampFromBinary or AampFromText is, value for value, the tree supplied,
\* version and type tag included.
C6_AampRoundTrip ==
    (aampOut.op \in {"AampFromBinary", "AampFromText"} /\ ValidList(rsPio))
        => (aampOut.res.ok /\ SamePio(aampOut.res.val, rsPio))

\* The same round trip over the trees whose buffers are all empty.
NoFilledBuffer(rsList) ==
    \A rsObj \in AllObjects(rsList) :
        \A i \in 1..Len(rsObj) : rsObj[i].val[1] \in {"BufferInt", "BufferF32", "BufferU32", "BufferBinary"} => rsObj[i].val[2] = <<>>

C6_RoundTripButBuffers ==
    (aampOut.op \in {"AampFromBinary", "AampFromText"} /\ ValidList(rsPio)
        /\ NoFilledBuffer(rsPio))
        => (aampOut.res.ok /\ SamePio(aampOut.res.val, rsPio))

HasUnknownTag(rsList) == \E rsObj \in AllObjects(rsList) : ~KnownTags(rsObj)

\* Every parameter of the object holds the arm its supplied tag names.
ArmsOfObject(obj, rsObj) ==
    \A i \in 1..Len(obj.params) :
        /\ Supplied(rsObj, obj.params[i].hash)
        /\ obj.params[i].val.type = LastWith(rsObj, obj.params[i].hash).val[1]

RECURSIVE ArmsOfList(_, _)
ArmsOfList(list, rsList) ==
    /\ \A i \in 1..Len(list.objects) :
          /\ Supplied(rsList.objects, list.objects[i].hash)
          /\ ArmsOfObject(list.objects[i].val,
                          LastWith(rsList.objects, list.objects[i].hash).val)
    /\ \A i \in 1..Len(list.lists) :
          /\ Supplied(rsList.lists, list.lists[i].hash)
          /\ ArmsOfList(list.lists[i].val, LastWith(rsList.lists, list.lists[i].hash).val)

\* C8: a tree with an unknown parameter tag anywhere makes PioFromFfi,
\* AampToBinary and AampToText throw, and nothing is returned; a tree without
\* one is converted, every parameter holding the arm its tag names.
C8_UnknownTagIsHardError ==
    aampOut.op \in {"PioFromFfi", "AampToBinary", "AampToText"} =>
        IF HasUnknownTag(rsPio)
        THEN ~aampOut.res.ok /\ aampOut.res.val = "Uh oh"
        ELSE /\ aampOut.res.ok
             /\ aampOut.op = "PioFromFfi" => ArmsOfList(aampOut.res.val, rsPio)

\* The unknown tag sits in an object of a nested list, after entries that convert.
C8_Witness ==
    /\ aampOut.op = "AampToBinary"
    /\ ~aampOut.res.ok
    /\ Len(rsPio.objects) > 0
    /\ \A i \in 1..Len(rsPio.objects) : KnownTags(rsPio.objects[i].val)
    /\ HasUnknownTag(rsPio)

Ascending(entries) ==
    \A i \in 1..(Len(entries) - 1) : entries[i].hash < entries[i + 1].hash

RECURSIVE AscendingList(_)
AscendingList(list) ==
    /\ Ascending(list.objects)
    /\ Ascending(list.lists)
    /\ \A i \in 1..Len(list.objects) : Ascending(list.objects[i].val.params)
    /\ \A i \in 1..Len(list.lists) : AscendingList(list.lists[i].val)

LinearScan(map, hash) ==
    IF \E i \in 1..Len(map) : map[i].hash = hash
    THEN CHOOSE i \in 1..Len(map) :
            map[i].hash = hash /\ \A j \in 1..(i - 1) : map[j].hash # hash
    ELSE 0

ProbeHashes == {0, 5, 9, 16, 17}

\* The hashes met on going through the map by index, as GetParamAt does.
ParamsByIndex(pmap) == [i \in 1..Len(pmap) |-> GetParamAt(pmap, i - 1).val.hash]
ObjsByIndex(pobjmap) == [i \in 1..Len(pobjmap) |-> GetParamObjAt(pobjmap, i - 1).val.hash]
ListsByIndex(plmap) == [i \in 1..Len(plmap) |-> GetParamListAt(plmap, i - 1).val.hash]

StrictlyAscending(hashes) == \A i \in 1..(Len(hashes) - 1) : hashes[i] < hashes[i + 1]

SearchIsScan(map) == \A h \in ProbeHashes : HsmFind(map, h) = LinearScan(map, h)

Byml(type, value) == [type |-> type, val |-> value]

\* std::string's operator<: byte-wise, a proper prefix first.
StrLess(a, b) ==
    \E k \in 1..(Len(b)) :
        /\ \A j \in 1..(k - 1) : j <= Len(a) /\ a[j] = b[j]
        /\ k > Len(a) \/ a[k] < b[k]

\* The entry is put after the entries the map holds, whatever its key.
BtreeInsert_AtTheEnd(map, key, value) ==
    IF \E i \in 1..Len(map) : map[i].key = key THEN map
    ELSE Append(map, [key |-> key, val |-> value])

\* absl::btree_map::insert: the entry goes to its place in the order of the
\* keys; a key the map holds already keeps its value.
BtreeInsert(map, key, value) ==
    IF \E i \in 1..Len(map) : map[i].key = key THEN map
    ELSE LET k == Cardinality({i \in 1..Len(map) : StrLess(map[i].key, key)})
         IN  SubSeq(map, 1, k) \o <<[key |-> key, val |-> value]>>
                \o SubSeq(map, k + 1, Len(map))

RECURSIVE InsertLoop(_, _, _, _)
\* for (i < node.len()) hash.insert(make_pair(key_by_index(i), vals[i])): the
\* loop ends where a conversion did not return.
InsertLoop(entries, vals, i, hash) ==
    IF i > Len(entries) THEN Ok(Byml("Hash", hash))
    ELSE IF ~vals[i].ok THEN vals[i]
    ELSE InsertLoop(entries, vals, i + 1, BtreeInsert(hash, entries[i][1], vals[i].val))

RECURSIVE PushBackLoop(_, _, _)
\* for (i < node.len()) vec.push_back(vals[i])
PushBackLoop(vals, i, vec) ==
    IF i > Len(vals) THEN Ok(Byml("Array", vec))
    ELSE IF ~vals[i].ok THEN vals[i]
    ELSE PushBackLoop(vals, i + 1, Append(vec, vals[i].val))

\* The outcomes of flowing off the end of FromFfi (control leaves the function
\* without a return statement): the call does not come back, or it comes back
\* with whatever node the memory happens to hold.
UBOutcomes == {Throw("undefined behaviour"), Ok(Byml("Null", 0)), Ok(Byml("Int", 0))}

\* The types FromFfi's switch has a case for.
BymlCases == {"Array", "Hash", "Bool", "String", "Int", "Int64", "UInt", "UInt64",
              "Float", "Double"}

RECURSIVE FromFfi(_, _)
\* FromFfi: ub is what this run does where the switch has no case.
FromFfi(node, ub) ==
    CASE node[1] = "Array" ->
            PushBackLoop([i \in 1..Len(node[2]) |-> FromFfi(node[2][i], ub)], 1, <<>>)
      [] node[1] = "Hash" ->
            InsertLoop(node[2], [i \in 1..Len(node[2]) |-> FromFfi(node[2][i][2], ub)],
                       1, <<>>)
      [] node[1] \in BymlCases \ {"Array", "Hash"} -> Ok(Byml(node[1], node[2]))
      [] OTHER -> ub

\* GetHashKeys
GetHashKeys(hash) == [i \in 1..Len(hash) |-> hash[i].key]

\* ------------------------------------------------------------------ BYML: the text form

\* The text form is a document of tagged nodes, as the parameter tree's: an
\* integer wider or unsigned carries a tag, a null is the null scalar.
RECURSIVE BymlNode(_)
\* oead::Byml::ToText
BymlNode(byml) ==
    CASE byml.type = "Array" ->
            Node("", "seq", [i \in 1..Len(byml.val) |-> BymlNode(byml.val[i])])
      [] byml.type = "Hash" ->
            Node("", "map", [i \in 1..Len(byml.val) |->
                                [key |-> byml.val[i].key, node |-> BymlNode(byml.val[i].val)]])
      [] byml.type = "Null" -> Node("", "null", byml.val)
      [] byml.type = "Bool" -> Node("", "bool", byml.val)
      [] byml.type = "Int" -> Node("", "int", byml.val)
      [] byml.type = "UInt" -> Node("!u", "int", byml.val)
      [] byml.type = "Int64" -> Node("!l", "int", byml.val)
      [] byml.type = "UInt64" -> Node("!ul", "int", byml.val)
      [] byml.type = "Float" -> Node("", "float", byml.val)
      [] byml.type = "Double" -> Node("!f64", "float", byml.val)
      [] byml.type = "String" -> Node("", "str", byml.val)

\* BymlToText
BymlToText(ffiNode, ub) ==
    LET node == FromFfi(ffiNode, ub)
    IN  IF node.ok THEN Ok(BymlNode(node.val)) ELSE node

\* The scalar type a tag and a form stand for.
ScalarType(tag, kind) ==
    CASE tag = "" /\ kind = "null" -> "Null"
      [] tag = "" /\ kind = "bool" -> "Bool"
      [] tag = "" /\ kind = "int" -> "Int"
      [] tag = "!u" /\ kind = "int" -> "UInt"
      [] tag = "!l" /\ kind = "int" -> "Int64"
      [] tag = "!ul" /\ kind = "int" -> "UInt64"
      [] tag = "" /\ kind = "float" -> "Float"
      [] tag = "!f64" /\ kind = "float" -> "Double"
      [] tag = "" /\ kind = "str" -> "String"
      [] OTHER -> "Invalid"

RECURSIVE LoadHash(_, _, _, _)
\* The mapping's entries go into a hash; a key written twice is malformed.
LoadHash(entries, vals, i, hash) ==
    IF i > Len(entries) THEN Ok(Byml("Hash", hash))
    ELSE IF ~vals[i].ok THEN vals[i]
    ELSE IF \E j \in 1..Len(hash) : hash[j].key = entries[i].key THEN Throw("DuplicateKey")
    ELSE LoadHash(entries, vals, i + 1, BtreeInsert(hash, entries[i].key, vals[i].val))

RECURSIVE BymlFromText(_)
\* BymlFromText (oead::Byml::FromText)
BymlFromText(n) ==
    CASE n.tag = "" /\ n.kind = "seq" ->
            PushBackLoop([i \in 1..Len(n.v) |-> BymlFromText(n.v[i])], 1, <<>>)
      [] n.tag = "" /\ n.kind = "map" ->
            LoadHash(n.v, [i \in 1..Len(n.v) |-> BymlFromText(n.v[i].node)], 1, <<>>)
      [] OTHER ->
            IF ScalarType(n.tag, n.kind) = "Invalid" THEN Throw("InvalidTag")
            ELSE Ok(Byml(ScalarType(n.tag, n.kind), n.v))

\* ------------------------------------------------------------------ BYML: inputs

BymlKeys == {<<97>>, <<98>>, <<97, 98>>}

\* The containers over these members: empty, of one member, or of two of the
\* small ones (a key may come twice, and in either order).
ContainersOver(Rich, Tiny) ==
    {<<"Array", <<>>>>, <<"Hash", <<>>>>}
        \cup {<<"Array", <<n>>>> : n \in Rich}
        \cup {<<"Array", <<n, m>>>> : n \in Tiny, m \in Tiny}
        \cup {<<"Hash", <<e>>>> : e \in BymlKeys \X Rich}
        \cup {<<"Hash", <<e, f>>>> : e \in BymlKeys \X Tiny, f \in BymlKeys \X Tiny}

\* The nodes tried: a node of every scalar type, the containers over them, and
\* the containers over those.
RsBymls ==
    LET RsScalars ==
            {<<"Null", 0>>, <<"Bool", TRUE>>, <<"Int", -1>>, <<"UInt", 3>>, <<"Int64", -5>>,
             <<"UInt64", 7>>, <<"Float", 1>>, <<"Double", 2>>, <<"String", StrAB>>,
             <<"String", <<>>>>}
        TinyScalars == {<<"Null", 0>>, <<"Int", -1>>, <<"String", StrAB>>}
        RsContainers == ContainersOver(RsScalars, TinyScalars)
        TinyContainers ==
            {<<"Array", <<<<"Null", 0>>>>>>,
             <<"Hash", <<<<<<98>>, <<"Int", -1>>>>, <<<<97>>, <<"UInt", 3>>>>>>>>}
    IN  RsScalars \cup RsContainers \cup ContainersOver(RsContainers, TinyContainers)

\* ------------------------------------------------------------------ BYML: the state machine

InitByml ==
    /\ sarcSrc = NoRet /\ sarc = NoRet /\ writer = NoRet /\ other = NoRet /\ sarcRet = NoRet
    /\ yazIn = NoRet /\ yazComp = NoRet /\ yazOut = NoRet
    /\ rsPio = NoRet /\ aampOut = NoRet /\ aampRet = NoRet
    /\ rsByml \in RsBymls
    /\ bymlOut = NoRet
    /\ bymlRet = NoRet

CallBymlToText ==
    /\ \E ub \in UBOutcomes :
          bymlOut' = [op |-> "BymlToText", res |-> BymlToText(rsByml, ub)]
    /\ bymlRet' = NoRet
    /\ UNCHANGED <<sarcVars, yazVars, aampVars, rsByml>>

\* The conversion alone, as BymlToText and BymlToBinary start with it.
CallFromFfi ==
    /\ \E ub \in UBOutcomes :
          bymlOut' = [op |-> "FromFfi", res |-> FromFfi(rsByml, ub)]
    /\ bymlRet' = NoRet
    /\ UNCHANGED <<sarcVars, yazVars, aampVars, rsByml>>

CallBymlFromText ==
    /\ bymlOut.op = "BymlToText"
    /\ bymlOut.res.ok
    /\ bymlOut' = [op |-> "BymlFromText", res |-> BymlFromText(bymlOut.res.val)]
    /\ bymlRet' = NoRet
    /\ UNCHANGED <<sarcVars, yazVars, aampVars, rsByml>>

CallGetHashKeys ==
    /\ bymlOut.op \in {"FromFfi", "BymlFromText"}
    /\ bymlOut.res.ok
    /\ bymlOut.res.val.type = "Hash"
    /\ bymlRet' = [op |-> "GetHashKeys", res |-> GetHashKeys(bymlOut.res.val.val)]
    /\ UNCHANGED <<sarcVars, yazVars, aampVars, rsByml, bymlOut>>

NextByml ==
    \/ CallFromFfi
    \/ CallBymlToText
    \/ CallBymlFromText
    \/ CallGetHashKeys

SpecByml == InitByml /\ [][NextByml]_vars

\* ------------------------------------------------------------------ BYML: claims

UniqueKeys(entries) == \A i, j \in 1..Len(entries) : entries[i][1] = entries[j][1] => i = j

RECURSIVE ValidNode(_)
\* A node of the listed types whose hashes have each key once.
ValidNode(rs) ==
    CASE rs[1] = "Array" -> \A i \in 1..Len(rs[2]) : ValidNode(rs[2][i])
      [] rs[1] = "Hash" ->
            UniqueKeys(rs[2]) /\ \A i \in 1..Len(rs[2]) : ValidNode(rs[2][i][2])
      [] OTHER -> rs[1] \in BymlCases \cup {"Null"}

RECURSIVE SameNode(_, _)
\* The tree has the content of the caller's node: the same type, and the same
\* value, members in their order, or entries under their keys.
SameNode(byml, rs) ==
    /\ byml.type = rs[1]
    /\ CASE rs[1] = "Array" ->
                /\ Len(byml.val) = Len(rs[2])
                /\ \A i \in 1..Len(rs[2]) : SameNode(byml.val[i], rs[2][i])
         [] rs[1] = "Hash" ->
                /\ Len(byml.val) = Len(rs[2])
                /\ \A i \in 1..Len(rs[2]) :
                      \E j \in 1..Len(byml.val) :
                          /\ byml.val[j].key = rs[2][i][1]
                          /\ SameNode(byml.val[j].val, rs[2][i][2])
         [] OTHER -> byml.val = rs[2]

RECURSIVE HasNull(_)
HasNull(rs) ==
    CASE rs[1] = "Array" -> \E i \in 1..Len(rs[2]) : HasNull(rs[2][i])
      [] rs[1] = "Hash" -> \E i \in 1..Len(rs[2]) : HasNull(rs[2][i][2])
      [] OTHER -> rs[1] = "Null"

\* C7: the text BymlToText writes for a node of any of the types, read back by
\* BymlFromText, is a tree of the node's content.
C7_BymlTextRoundTrip ==
    ValidNode(rsByml) =>
        /\ bymlOut.op = "BymlToText" => bymlOut.res.ok
        /\ bymlOut.op = "BymlFromText" =>
              (bymlOut.res.ok /\ SameNode(bymlOut.res.val, rsByml))

\* The same round trip over the nodes that hold no Null.
C7_RoundTripButNull ==
    (ValidNode(rsByml) /\ ~HasNull(rsByml)) =>
        /\ bymlOut.op = "BymlToText" => bymlOut.res.ok
        /\ bymlOut.op = "BymlFromText" =>
              (bymlOut.res.ok /\ SameNode(bymlOut.res.val, rsByml))

\* The keys are in strictly ascending byte-wise order (so each comes once).
KeysAscend(keys) == \A i \in 1..(Len(keys) - 1) : StrLess(keys[i], keys[i + 1])

RECURSIVE HashesSorted(_)
\* Every Hash of the tree holds its children in ascending order of key.
HashesSorted(byml) ==
    CASE byml.type = "Array" -> \A i \in 1..Len(byml.val) : HashesSorted(byml.val[i])
      [] byml.type = "Hash" ->
            /\ KeysAscend([i \in 1..Len(byml.val) |-> byml.val[i].key])
            /\ \A i \in 1..Len(byml.val) : HashesSorted(byml.val[i].val)
      [] OTHER -> TRUE

\* C11: whatever the order the children of a Hash node are supplied in, the
\* Hash FromFfi builds holds them in strictly ascending byte-wise order of key,
\* each supplied key once, and GetHashKeys lists them in that order.
C11_HashKeySorted ==
    /\ (bymlOut.op = "FromFfi" /\ bymlOut.res.ok) =>
          /\ HashesSorted(bymlOut.res.val)
          /\ rsByml[1] = "Hash" =>
                /\ bymlOut.res.val.type = "Hash"
                /\ {bymlOut.res.val.val[i].key : i \in 1..Len(bymlOut.res.val.val)}
                      = {rsByml[2][i][1] : i \in 1..Len(rsByml[2])}
    /\ (bymlOut.op = "FromFfi" /\ bymlRet.op = "GetHashKeys") =>
          /\ KeysAscend(bymlRet.res)
          /\ {bymlRet.res[i] : i \in 1..Len(bymlRet.res)}
                = {rsByml[2][i][1] : i \in 1..Len(rsByml[2])}

\* GetHashKeys has listed "a", "b" for a Hash supplied as "b", then "a".
C11_Witness ==
    /\ rsByml[1] = "Hash"
    /\ Len(rsByml[2]) = 2
    /\ rsByml[2][1][1] = <<98>>
    /\ rsByml[2][2][1] = <<97>>
    /\ bymlOut.op = "FromFfi"
    /\ bymlRet.op = "GetHashKeys"
    /\ bymlRet.res = <<<<97>>, <<98>>>>

\* C12: a key inserted more than once is held once, with the value of the
\* last insert: the Hash FromFfi builds from children without a Null holds,
\* for every key supplied, one child, the one supplied last under that key.
C12_LastWriteWins ==
    (bymlOut.op = "FromFfi" /\ rsByml[1] = "Hash" /\ ~HasNull(rsByml)) =>
        /\ bymlOut.res.ok
        /\ bymlOut.res.val.type = "Hash"
        /\ KeysAscend([i \in 1..Len(bymlOut.res.val.val) |-> bymlOut.res.val.val[i].key])
        /\ \A i \in 1..Len(rsByml[2]) :
              (\A j \in (i + 1)..Len(rsByml[2]) : rsByml[2][j][1] # rsByml[2][i][1]) =>
                  \E k \in 1..Len(bymlOut.res.val.val) :
                      /\ bymlOut.res.val.val[k].key = rsByml[2][i][1]
                      /\ ValidNode(rsByml[2][i][2]) =>
                            SameNode(bymlOut.res.val.val[k].val, rsByml[2][i][2])

\* The same over the parameter tree's maps: the tree PioFromFfi builds holds,
\* for every hash supplied (twice or once), one entry, the one supplied last.
C12_AampLastWriteWins ==
    (aampOut.op = "PioFromFfi" /\ ~HasUnknownTag(rsPio) /\ NoFilledBuffer(rsPio)) =>
        /\ aampOut.res.ok
        /\ SamePio(aampOut.res.val, rsPio)
        /\ AscendingList(aampOut.res.val)

\* The buffer parameters of the tree's root objects, each with the elements
\* supplied for it: <<elements held, elements supplied>>.
BuffersBuilt ==
    {<<aampOut.res.val.objects[i].val.params[k].val.val,
       LastWith(LastWith(rsPio.objects, aampOut.res.val.objects[i].hash).val,
                aampOut.res.val.objects[i].val.params[k].hash).val[2]>> :
        <<i, k>> \in {<<i, k>> \in (1..Len(aampOut.res.val.objects)) \X (1..2) :
                        /\ k <= Len(aampOut.res.val.objects[i].val.params)
                        /\ aampOut.res.val.objects[i].val.params[k].val.type
                              \in {"BufferInt", "BufferF32", "BufferU32", "BufferBinary"}}}

\* C13: the Parameter ParamFromFfi builds from a buffer value of n elements
\* holds exactly those n elements in their order, and a buffer (empty or not)
\* is no reason for an error: a tree of known tags is converted.
C13_BufferHoldsItsElements ==
    /\ (aampOut.op = "PioFromFfi" /\ aampOut.res.ok) =>
          \A b \in BuffersBuilt : b[1] = b[2]
    /\ (aampOut.op = "PioFromFfi" /\ ~HasUnknownTag(rsPio)) => aampOut.res.ok

\* The same for the buffers supplied empty: each is built empty, without an error.
C13_EmptyBufferIsEmpty ==
    /\ (aampOut.op = "PioFromFfi" /\ aampOut.res.ok) =>
          \A b \in BuffersBuilt : b[2] = <<>> => b[1] = <<>>
    /\ (aampOut.op = "PioFromFfi" /\ ~HasUnknownTag(rsPio)) => aampOut.res.ok

\* An empty buffer has been converted.
C13_EmptyBufferBuilt ==
    /\ aampOut.op = "PioFromFfi"
    /\ aampOut.res.ok
    /\ \E b \in BuffersBuilt : b[2] = <<>>

\* ------------------------------------------------------------------ SARC: the writer's file set

\* The names a writer holds.
NamesOf(w) == {w.files[i].name : i \in 1..Len(w.files)}

\* after is before with the name set to the payload: the name maps to the
\* payload, once, and every other name is as it was.
IsSet(before, after, name, data) ==
    /\ FileSet(after) = {p \in FileSet(before) : p[1] # name} \cup {<<name, data>>}
    /\ NumFiles(after) = Cardinality(NamesOf(before) \cup {name})

\* after is before without the name, and every other name is as it was; an
\* absent name leaves the writer as it was.
IsDeleted(before, after, name) ==
    /\ FileSet(after) = {p \in FileSet(before) : p[1] # name}
    /\ NumFiles(after) = Cardinality(NamesOf(before) \ {name})
    /\ name \notin NamesOf(before) => after = before

\* What a call does to the two writers, by the call made (sarcRet holds the
\* call and its arguments; it is made on one writer and leaves the other).
C14_Step ==
    /\ sarcRet'.op = "SetFile" =>
          \/ IsSet(writer.w, writer'.w, sarcRet'.name, sarcRet'.data) /\ other' = other
          \/ IsSet(other.w, other'.w, sarcRet'.name, sarcRet'.data) /\ writer' = writer
    /\ sarcRet'.op = "DelFile" =>
          \/ /\ IsDeleted(writer.w, writer'.w, sarcRet'.name)
             /\ sarcRet'.res <=> sarcRet'.name \in NamesOf(writer.w)
             /\ other' = other
          \/ /\ IsDeleted(other.w, other'.w, sarcRet'.name)
             /\ sarcRet'.res <=> sarcRet'.name \in NamesOf(other.w)
             /\ writer' = writer
    /\ sarcRet'.op = "NumFiles" =>
          /\ sarcRet'.res = Cardinality(NamesOf(writer.w))
          /\ sarcRet'.res = Cardinality(FileSet(writer.w))
    /\ sarcRet'.op \notin {"SetFile", "DelFile"} =>
          (FileSet(writer'.w) = FileSet(writer.w) /\ FileSet(other'.w) = FileSet(other.w))

\* C14: through every sequence of SetFile and DelFile calls the writer's file
\* set follows the calls: SetFile puts the name under the payload given
\* (replacing the payload it had), DelFile removes the name and returns true
\* exactly when the name was there, leaving the set as it was when it was not,
\* no other call and no other name is touched, and NumFiles is the number of
\* names held; so each name held maps to the payload of its latest SetFile
\* not followed by a DelFile.
C14_FileSetFollowsCalls == [][C14_Step]_vars

\* A DelFile of "A.txt" has returned true, and the writers are left holding
\* "B.txt" alone and nothing.
C14_Witness ==
    /\ sarcRet.op = "DelFile"
    /\ sarcRet.res
    /\ sarcRet.name = NameA
    /\ FileSet(writer.w) = {<<NameB, <<65>>>>}
    /\ FileSet(other.w) = {}

====
